---- MODULE Spec2Model ----
\* MuseWave media pipeline (backend-complete/scripts/generate_media.py):
\* MediaGenerator.generate_all and the stage methods it calls, over a model
\* of the job's output directory and of the external tools' outcomes.
\* Also, each under a specification of its own: MediaGenerator.__init__,
\* the provider-bridge scripts (backend/python/*_bridge.py) and the text
\* service (backend-oss/app/services/text.py).
EXTENDS Integers, Sequences, FiniteSets, TLC

\* ---------------------------------------------------------------- bounds
MaxJobs == 2
MaxLyricsLen == 1
MaxSizeDelta == 8
MaxGenerators == 2
MaxBridgeRuns == 3

\* ------------------------------------------------------ program constants
DEFAULT_SAMPLE_RATE == 44100
DEFAULT_CHANNELS == 2
MIN_FILE_SIZE == 10000

\* --------------------------------------------------------------- the disk
\* self.paths: the keys of the fixed-name artifacts of one output directory
Paths == {"midi", "wav_midi", "wav_texture", "wav_vocals", "wav_mix",
          "mp4_video", "metadata"}

\* size of a path that does not exist
Absent == -1

\* sizes an external program may leave in its output file
OutSizes == {MIN_FILE_SIZE - 1, MIN_FILE_SIZE}

\* bytes of the file midiutil writes for the 32 quarter-second notes of the
\* fallback melody: header chunk, tempo track, note track (note-on 4 bytes,
\* note-off 5 bytes, 8 bytes of track header, 4 of end-of-track)
notes == <<60, 62, 64, 65, 67, 69, 71, 72>>
FallbackMidiSize == 14 + 19 + (8 + 9 * (Len(notes) * 4) + 4)

\* bytes of the JSON descriptor (never validated, only its presence matters)
DescriptorSize == 1

FileSizes == {Absent, 0, DescriptorSize, FallbackMidiSize} \cup OutSizes

EmptyDir == [p \in Paths |-> Absent]

exists(fs, p) == fs[p] # Absent

\* ------------------------------------------------------------ the inputs
Chars == {" ", "a"}
Whitespace == {" "}
LyricsInputs == UNION {[1..n -> Chars] : n \in 0..MaxLyricsLen}

\* video_style: the three styles main() accepts, a style none of the
\* filters knows, and the argument left out
Omitted == "<omitted>"
StyleInputs == {Omitted, "spectrum", "waveform", "volumeter", "bars"}

RECURSIVE lstrip(_)
lstrip(s) == IF s = <<>> THEN s
             ELSE IF Head(s) \in Whitespace THEN lstrip(Tail(s)) ELSE s

RECURSIVE rstrip(_)
rstrip(s) == IF s = <<>> THEN s
             ELSE IF s[Len(s)] \in Whitespace
                  THEN rstrip(SubSeq(s, 1, Len(s) - 1)) ELSE s

strip(s) == rstrip(lstrip(s))

\* `not lyrics` alone
no_lyrics_unstripped(lyr) == lyr = <<>>

\* `not lyrics or not lyrics.strip()`
no_lyrics(lyr) == lyr = <<>> \/ strip(lyr) = <<>>

\* ------------------------------------------------------------- variables
VARIABLES
  pc,          \* where generate_all stands: the next stage, "done" or "failed"
  files,       \* the output directory: path key -> size, Absent if missing
  lyrics,      \* argument of generate_all
  style,       \* argument video_style of generate_all (Omitted: defaulted)
  stages,      \* stage methods entered by this run, in order
  log,         \* attempts made by this run: program, output, exit, exception
  mixCmd,      \* the ffmpeg command mix_audio built in this run
  videoFilter, \* the -filter_complex generate_video passed in this run
  warnings,    \* format warnings printed in this run
  probed,      \* what ffprobe reported in the last stage run, NoProbe if
               \* that stage did not get to probe
  result,      \* what the caller of generate_all got: "", "success", "raised"
               \* ("returned": a method called alone returned)
  error,       \* the exception that reached the caller
  reused,      \* this job's directory was created by an earlier job
  jobs,        \* jobs constructed so far
  status,      \* exit status of the process, Running before it exits
  generators,  \* the MediaGenerator objects constructed, oldest first
  bridge,      \* a provider-bridge script: its output file and last run
  text         \* the text service: the last call and what it gave

\* the state of a job of generate_media.py
pipeline == <<pc, files, lyrics, style, stages, log, mixCmd, videoFilter,
              warnings, probed, result, error, reused, jobs, status>>

vars == <<pc, files, lyrics, style, stages, log, mixCmd, videoFilter,
          warnings, probed, result, error, reused, jobs, status,
          generators, bridge, text>>

\* the process has not exited
Running == -1

\* no bridge script and no text-service call in the picture
NoBridge == [script |-> ""]
NoText == [call |-> ""]

NoCmd == [inputs |-> <<>>, amix |-> 0]

\* ffprobe's report: the codec types of the streams, and sample rate and
\* channel count of the first one; NoProbe when it reported nothing
Probe(types, sr, ch) == [types |-> types, sample_rate |-> sr, channels |-> ch]
NoProbe == Probe({}, 0, 0)

\* -------------------------------------------------------- ValidationGate
\* validate_file: the exception it raises, "" when it returns True
NotCreated == "FileNotFoundError: not created"
TooSmall == "ValueError: is too small"

\* `size <= MIN_FILE_SIZE` for `size < MIN_FILE_SIZE`
validate_file_inclusive(fs, p) ==
  IF ~exists(fs, p) THEN NotCreated
  ELSE IF fs[p] <= MIN_FILE_SIZE THEN TooSmall
  ELSE ""

validate_file(fs, p) ==
  IF ~exists(fs, p) THEN NotCreated
  ELSE IF fs[p] < MIN_FILE_SIZE THEN TooSmall
  ELSE ""

\* --------------------------------------------------------- ProcessRunner
\* What one external program can do: it is not installed, or it runs once
\* and exits, leaving its output file as it was or with some size.
Entry(cmd, out, exit, err) == [cmd |-> cmd, out |-> out, exit |-> exit, err |-> err]

Written(fs, out) == {fs} \cup {[fs EXCEPT ![out] = sz] : sz \in OutSizes}

\* run_command(cmd, output_file, description): the set of its outcomes,
\* each the exception raised ("" if none), the directory afterwards and
\* the attempt made.  mayBeMissing: the program is not one of the probed ones.
NoProgram == "FileNotFoundError: no such program"
FailedTo == "RuntimeError: Failed to"

\* the output file not validated after a zero exit
run_command_unvalidated(fs, cmd, out, mayBeMissing) ==
  (IF mayBeMissing
     THEN {[err |-> NoProgram, fs |-> fs,
            log |-> <<Entry(cmd, out, "notfound", NoProgram)>>]}
     ELSE {})
  \cup {[err |-> FailedTo, fs |-> w,
         log |-> <<Entry(cmd, out, "nonzero", FailedTo)>>] : w \in Written(fs, out)}
  \cup {[err |-> "", fs |-> w,
         log |-> <<Entry(cmd, out, "zero", "")>>] : w \in Written(fs, out)}

\* check=True left out: a non-zero exit goes on to the validation
run_command_exit_ignored(fs, cmd, out, mayBeMissing) ==
  (IF mayBeMissing
     THEN {[err |-> NoProgram, fs |-> fs,
            log |-> <<Entry(cmd, out, "notfound", NoProgram)>>]}
     ELSE {})
  \cup {[err |-> validate_file(w, out), fs |-> w,
         log |-> <<Entry(cmd, out, x, validate_file(w, out))>>]
        : w \in Written(fs, out), x \in {"nonzero", "zero"}}

run_command(fs, cmd, out, mayBeMissing) ==
  (IF mayBeMissing
     THEN {[err |-> NoProgram, fs |-> fs,
            log |-> <<Entry(cmd, out, "notfound", NoProgram)>>]}
     ELSE {})
  \cup {[err |-> FailedTo, fs |-> w,
         log |-> <<Entry(cmd, out, "nonzero", FailedTo)>>] : w \in Written(fs, out)}
  \cup {[err |-> validate_file(w, out), fs |-> w,
         log |-> <<Entry(cmd, out, "zero", validate_file(w, out))>>] : w \in Written(fs, out)}

\* ---------------------------------------------------------------- melody
\* the fallback file returned without the validate_file call
generate_fallback_midi_unvalidated(fs) ==
  {[err |-> "ImportError", fs |-> fs,
    log |-> <<Entry("midiutil", "midi", "n/a", "ImportError")>>]}
  \cup
  LET w == [fs EXCEPT !["midi"] = FallbackMidiSize]
  IN {[err |-> "", fs |-> w, log |-> <<Entry("midiutil", "midi", "n/a", "")>>]}

\* generate_fallback_midi: midiutil importable or not
generate_fallback_midi(fs) ==
  {[err |-> "ImportError", fs |-> fs,
    log |-> <<Entry("midiutil", "midi", "n/a", "ImportError")>>]}
  \cup
  LET w == [fs EXCEPT !["midi"] = FallbackMidiSize]
  IN {[err |-> validate_file(w, "midi"), fs |-> w,
       log |-> <<Entry("midiutil", "midi", "n/a", validate_file(w, "midi"))>>]}

\* the fallback run whatever the primary attempt p did
TryExcept_always(p, fallback) ==
  {[err |-> f.err, fs |-> f.fs, log |-> p.log \o f.log] : f \in fallback}

\* try: p  except Exception: fallback (the outcomes of the fallback run on
\* the directory p left)
TryExcept(p, fallback) ==
  IF p.err = "" THEN {p}
  ELSE {[err |-> f.err, fs |-> f.fs, log |-> p.log \o f.log] : f \in fallback}

generate_melody(fs) ==
  UNION {TryExcept(p, generate_fallback_midi(p.fs))
         : p \in run_command(fs, "magenta", "midi", FALSE)}

\* midi_to_wav: the soundfont exists or not
SoundfontMissing == "FileNotFoundError: Soundfont missing"

\* the missing soundfont only reported, fluidsynth run all the same
midi_to_wav_unchecked(fs) ==
  {[err |-> r.err, fs |-> r.fs,
    log |-> <<Entry("soundfont", "wav_midi", "n/a", SoundfontMissing)>> \o r.log]
   : r \in run_command(fs, "fluidsynth", "wav_midi", FALSE)}
  \cup run_command(fs, "fluidsynth", "wav_midi", FALSE)

midi_to_wav(fs) ==
  {[err |-> SoundfontMissing, fs |-> fs,
    log |-> <<Entry("soundfont", "wav_midi", "n/a", SoundfontMissing)>>]}
  \cup run_command(fs, "fluidsynth", "wav_midi", FALSE)

\* --------------------------------------------------------------- texture
generate_fallback_texture(fs) == run_command(fs, "ffmpeg-sine", "wav_texture", FALSE)

generate_texture(fs) ==
  UNION {TryExcept(p, generate_fallback_texture(p.fs))
         : p \in run_command(fs, "riffusion", "wav_texture", FALSE)}

\* ---------------------------------------------------------------- vocals
\* generate_vocals never raises; ret is its return value
generate_vocals(fs, lyr) ==
  IF no_lyrics(lyr)
    THEN {[err |-> "", fs |-> fs, log |-> <<>>, ret |-> FALSE]}
    ELSE {[err |-> "", fs |-> r.fs, log |-> r.log, ret |-> (r.err = "")]
          : r \in run_command(fs, "tts", "wav_vocals", TRUE)}

\* ------------------------------------------------------------------- mix
\* what ffprobe may report of the first stream
ProbeRates == {DEFAULT_SAMPLE_RATE, 22050}
ProbeChannels == {DEFAULT_CHANNELS, 1}
ProbeFailed == "CalledProcessError: ffprobe"
NoAudioStreams == "ValueError: No audio streams found"

\* a value that differs from the expected one raises instead of warning
verify_audio_format_strict(p) ==
  {[err |-> ProbeFailed, warn |-> {}, probe |-> NoProbe,
    log |-> <<Entry("ffprobe", p, "nonzero", ProbeFailed)>>],
   [err |-> NoAudioStreams, warn |-> {}, probe |-> NoProbe,
    log |-> <<Entry("ffprobe", p, "zero", NoAudioStreams)>>]}
  \cup
  {[err |-> (IF sr # DEFAULT_SAMPLE_RATE \/ ch # DEFAULT_CHANNELS
             THEN "ValueError: format" ELSE ""),
    warn |-> {},
    probe |-> Probe({"audio"}, sr, ch),
    log |-> <<Entry("ffprobe", p, "zero",
                    IF sr # DEFAULT_SAMPLE_RATE \/ ch # DEFAULT_CHANNELS
                    THEN "ValueError: format" ELSE "")>>]
   : sr \in ProbeRates, ch \in ProbeChannels}

verify_audio_format(p) ==
  {[err |-> ProbeFailed, warn |-> {}, probe |-> NoProbe,
    log |-> <<Entry("ffprobe", p, "nonzero", ProbeFailed)>>],
   [err |-> NoAudioStreams, warn |-> {}, probe |-> NoProbe,
    log |-> <<Entry("ffprobe", p, "zero", NoAudioStreams)>>]}
  \cup
  {[err |-> "",
    warn |-> (IF sr # DEFAULT_SAMPLE_RATE THEN {"sample_rate"} ELSE {})
             \cup (IF ch # DEFAULT_CHANNELS THEN {"channels"} ELSE {}),
    probe |-> Probe({"audio"}, sr, ch),
    log |-> <<Entry("ffprobe", p, "zero", "")>>]
   : sr \in ProbeRates, ch \in ProbeChannels}

NoStems == "ValueError: No audio files available for mixing"

\* the input_files list mix_audio collects
input_files(fs) ==
  (IF exists(fs, "wav_texture") THEN <<"wav_texture">> ELSE <<>>)
  \o (IF exists(fs, "wav_midi") THEN <<"wav_midi">> ELSE <<>>)
  \o (IF exists(fs, "wav_vocals") THEN <<"wav_vocals">> ELSE <<>>)

\* amix declared for the three stems whatever was collected
mix_command_three(fs) == [inputs |-> input_files(fs), amix |-> 3]

\* the command line: one -i per input file, amix=inputs=num_inputs
mix_command(fs) == [inputs |-> input_files(fs), amix |-> Len(input_files(fs))]

\* a format warning turned into a failure of the mix
mix_run_warning_fatal(fs) ==
  UNION {
      IF r.err # ""
        THEN {[err |-> r.err, fs |-> r.fs, log |-> r.log,
               cmd |-> mix_command(fs), warn |-> {}, probe |-> NoProbe]}
        ELSE {[err |-> (IF v.warn # {} THEN "ValueError: format" ELSE v.err),
               fs |-> r.fs, log |-> r.log \o v.log,
               cmd |-> mix_command(fs), warn |-> v.warn, probe |-> v.probe]
              : v \in verify_audio_format("wav_mix")}
      : r \in run_command(fs, "ffmpeg-amix", "wav_mix", FALSE)}

\* ffmpeg run on whatever was collected, and then the probe
mix_run(fs) ==
  UNION {
      IF r.err # ""
        THEN {[err |-> r.err, fs |-> r.fs, log |-> r.log,
               cmd |-> mix_command(fs), warn |-> {}, probe |-> NoProbe]}
        ELSE {[err |-> v.err, fs |-> r.fs, log |-> r.log \o v.log,
               cmd |-> mix_command(fs), warn |-> v.warn, probe |-> v.probe]
              : v \in verify_audio_format("wav_mix")}
      : r \in run_command(fs, "ffmpeg-amix", "wav_mix", FALSE)}

\* the `if not input_files` test left out
mix_audio_unguarded(fs) == mix_run(fs)

mix_audio(fs) ==
  IF input_files(fs) = <<>>
    THEN {[err |-> NoStems, fs |-> fs, log |-> <<>>, cmd |-> NoCmd, warn |-> {},
           probe |-> NoProbe]}
    ELSE mix_run(fs)

\* ----------------------------------------------------------------- video
Filters == {"spectrum", "waveform", "volumeter"}

\* waveform given the spectrum filter
filter_name_shared(k) ==
  CASE k = "spectrum" -> "showspectrum"
    [] k = "waveform" -> "showspectrum"
    [] k = "volumeter" -> "avectorscope"

filter_name(k) ==
  CASE k = "spectrum" -> "showspectrum"
    [] k = "waveform" -> "showwaves"
    [] k = "volumeter" -> "avectorscope"

\* filters.get(video_style, filters["spectrum"]), the parameter defaulting
\* to "spectrum"
video_filter(st) ==
  LET video_style == IF st = Omitted THEN "spectrum" ELSE st
  IN IF video_style \in Filters THEN filter_name(video_style)
     ELSE filter_name("spectrum")

MixNotFound == "FileNotFoundError: Audio mix not found"
NoVideoStream == "ValueError: No video stream found"

\* the stream lists ffprobe may report
StreamTypes == SUBSET {"video", "audio"}

\* an audio stream demanded as well
verify_video_format_needs_audio(p) ==
  {[err |-> ProbeFailed, probe |-> NoProbe,
    log |-> <<Entry("ffprobe", p, "nonzero", ProbeFailed)>>]}
  \cup
  {[err |-> (IF {"video", "audio"} \subseteq types THEN "" ELSE NoVideoStream),
    probe |-> Probe(types, 0, 0),
    log |-> <<Entry("ffprobe", p, "zero",
                    IF {"video", "audio"} \subseteq types THEN "" ELSE NoVideoStream)>>]
   : types \in StreamTypes}

\* ffprobe's stream list: with or without a video and an audio stream
verify_video_format(p) ==
  {[err |-> ProbeFailed, probe |-> NoProbe,
    log |-> <<Entry("ffprobe", p, "nonzero", ProbeFailed)>>]}
  \cup
  {[err |-> (IF "video" \in types THEN "" ELSE NoVideoStream),
    probe |-> Probe(types, 0, 0),
    log |-> <<Entry("ffprobe", p, "zero",
                    IF "video" \in types THEN "" ELSE NoVideoStream)>>]
   : types \in StreamTypes}

\* the encoder run on the mix, and then the probe
video_run(fs, st) ==
  UNION {
      IF r.err # ""
        THEN {[err |-> r.err, fs |-> r.fs, log |-> r.log,
               filter |-> video_filter(st), probe |-> NoProbe]}
        ELSE {[err |-> v.err, fs |-> r.fs, log |-> r.log \o v.log,
               filter |-> video_filter(st), probe |-> v.probe]
              : v \in verify_video_format("mp4_video")}
      : r \in run_command(fs, "ffmpeg-video", "mp4_video", FALSE)}

\* the test for the mix left out
generate_video_unguarded(fs, st) == video_run(fs, st)

generate_video(fs, st) ==
  IF ~exists(fs, "wav_mix")
    THEN {[err |-> MixNotFound, fs |-> fs, log |-> <<>>, filter |-> "",
           probe |-> NoProbe]}
    ELSE video_run(fs, st)

\* -------------------------------------------------------------- metadata
WriteFailed == "OSError: metadata"

\* open(..., 'w') then json.dump: written, or an I/O error before or after
\* the file was created
save_metadata(fs) ==
  {[err |-> "", fs |-> [fs EXCEPT !["metadata"] = DescriptorSize], log |-> <<>>]}
  \cup {[err |-> WriteFailed, fs |-> w, log |-> <<>>]
        : w \in {fs, [fs EXCEPT !["metadata"] = 0]}}

\* ---------------------------------------------------------- dependencies
Tools == <<"ffmpeg", "ffprobe", "fluidsynth", "python3">>
MissingDeps == "RuntimeError: Missing dependencies"

\* ', '.join(names)
RECURSIVE join(_)
join(names) ==
  IF names = <<>> THEN ""
  ELSE IF Len(names) = 1 THEN names[1]
  ELSE names[1] \o ", " \o join(Tail(names))

\* the loop left at the first tool that is not found
missing_tools_first(notfound) ==
  IF notfound = {} THEN <<>>
  ELSE <<Tools[CHOOSE j \in notfound : \A x \in notfound : j <= x]>>

\* the list `missing` the loop builds: the tools not found, in the order
\* probed
missing_tools(notfound) ==
  [i \in 1..Cardinality(notfound) |->
     Tools[CHOOSE j \in notfound : Cardinality({x \in notfound : x < j}) = i - 1]]

\* every tool is probed; missing: the indexes of those that were not found
check_dependencies(fs) ==
  {[err |-> (IF missing = {} THEN ""
             ELSE MissingDeps \o ": " \o join(missing_tools(missing))),
    fs |-> fs,
    log |-> [i \in 1..Len(Tools) |->
               Entry(Tools[i], "", IF i \in missing THEN "notfound" ELSE "zero", "")]]
   : missing \in SUBSET (1..Len(Tools))}

\* ---------------------------------------------------------- generate_all
\* texture generated before the melody is rendered
next_pc_texture_first(stage) ==
  CASE stage = "deps" -> "melody"
    [] stage = "melody" -> "texture"
    [] stage = "texture" -> "render"
    [] stage = "render" -> "vocals"
    [] stage = "vocals" -> "mix"
    [] stage = "mix" -> "video"
    [] stage = "video" -> "metadata"
    [] stage = "metadata" -> "done"

\* the descriptor saved right after the mix, before the video
next_pc_metadata_early(stage) ==
  CASE stage = "deps" -> "melody"
    [] stage = "melody" -> "render"
    [] stage = "render" -> "texture"
    [] stage = "texture" -> "vocals"
    [] stage = "vocals" -> "mix"
    [] stage = "mix" -> "metadata"
    [] stage = "metadata" -> "video"
    [] stage = "video" -> "done"

\* the statement that follows a stage of the try block
next_pc(stage) ==
  CASE stage = "deps" -> "melody"
    [] stage = "melody" -> "render"
    [] stage = "render" -> "texture"
    [] stage = "texture" -> "vocals"
    [] stage = "vocals" -> "mix"
    [] stage = "mix" -> "video"
    [] stage = "video" -> "metadata"
    [] stage = "metadata" -> "done"

\* the exception swallowed, the next statement run
except_pc_swallowed(stage) == next_pc(stage)

\* `except Exception as e: ... raise`: where an exception of a stage leads
except_pc(stage) == "failed"

\* the status 0 whether or not an exception reached the handler
sys_exit_zero(raised) == 0

\* the __main__ block: sys.exit(0) after main() returned, sys.exit(1) in
\* the handler of an Exception
sys_exit(raised) == IF raised THEN 1 ELSE 0

\* one statement of the try block has run with outcome r; an exception
\* leaves generate_all and main(), the last statement returns from them
Returned(stage, r) ==
  /\ files' = r.fs
  /\ log' = log \o r.log
  /\ IF r.err = ""
       THEN /\ pc' = next_pc(stage)
            /\ result' = (IF next_pc(stage) = "done" THEN "success" ELSE result)
            /\ error' = error
            /\ status' = (IF next_pc(stage) = "done" THEN sys_exit(FALSE) ELSE status)
       ELSE /\ pc' = except_pc(stage)
            /\ result' = "raised"
            /\ error' = r.err
            /\ status' = (IF except_pc(stage) = "failed" THEN sys_exit(TRUE) ELSE status)
  /\ UNCHANGED <<lyrics, style, reused, jobs, generators, bridge, text>>

GenerateAll_deps ==
  /\ pc = "deps"
  /\ \E r \in check_dependencies(files) : Returned("deps", r)
  /\ UNCHANGED <<stages, mixCmd, videoFilter, warnings, probed>>

GenerateAll_melody ==
  /\ pc = "melody"
  /\ stages' = Append(stages, "melody")
  /\ \E r \in generate_melody(files) : Returned("melody", r)
  /\ UNCHANGED <<mixCmd, videoFilter, warnings, probed>>

GenerateAll_render ==
  /\ pc = "render"
  /\ stages' = Append(stages, "render")
  /\ \E r \in midi_to_wav(files) : Returned("render", r)
  /\ UNCHANGED <<mixCmd, videoFilter, warnings, probed>>

GenerateAll_texture ==
  /\ pc = "texture"
  /\ stages' = Append(stages, "texture")
  /\ \E r \in generate_texture(files) : Returned("texture", r)
  /\ UNCHANGED <<mixCmd, videoFilter, warnings, probed>>

GenerateAll_vocals ==
  /\ pc = "vocals"
  /\ stages' = Append(stages, "vocals")
  /\ \E r \in generate_vocals(files, lyrics) : Returned("vocals", r)
  /\ UNCHANGED <<mixCmd, videoFilter, warnings, probed>>

GenerateAll_mix ==
  /\ pc = "mix"
  /\ stages' = Append(stages, "mix")
  /\ \E r \in mix_audio(files) :
       /\ Returned("mix", r)
       /\ mixCmd' = r.cmd
       /\ warnings' = warnings \cup r.warn
       /\ probed' = r.probe
  /\ UNCHANGED videoFilter

GenerateAll_video ==
  /\ pc = "video"
  /\ stages' = Append(stages, "video")
  /\ \E r \in generate_video(files, style) :
       /\ Returned("video", r)
       /\ videoFilter' = r.filter
       /\ probed' = r.probe
  /\ UNCHANGED <<mixCmd, warnings>>

GenerateAll_metadata ==
  /\ pc = "metadata"
  /\ \E r \in save_metadata(files) : Returned("metadata", r)
  /\ UNCHANGED <<stages, mixCmd, videoFilter, warnings, probed>>

\* main(): a MediaGenerator is constructed, on a new directory or (job id
\* or output directory given, makedirs exist_ok) on the one of the job
\* before, and generate_all is called
Construct(fs, reuse, lyr, st) ==
  /\ pc' = "deps"
  /\ files' = (IF reuse THEN fs ELSE EmptyDir)
  /\ reused' = reuse
  /\ lyrics' = lyr
  /\ style' = st
  /\ stages' = <<>>
  /\ log' = <<>>
  /\ mixCmd' = NoCmd
  /\ videoFilter' = ""
  /\ warnings' = {}
  /\ probed' = NoProbe
  /\ result' = ""
  /\ error' = ""
  /\ status' = Running
  /\ UNCHANGED <<generators, bridge, text>>

Main ==
  /\ pc \in {"done", "failed"}
  /\ jobs < MaxJobs
  /\ jobs' = jobs + 1
  /\ \E reuse \in BOOLEAN, lyr \in LyricsInputs, st \in StyleInputs :
       Construct(files, reuse, lyr, st)

Init ==
  /\ pc = "deps"
  /\ files = EmptyDir
  /\ reused = FALSE
  /\ lyrics \in LyricsInputs
  /\ style \in StyleInputs
  /\ stages = <<>>
  /\ log = <<>>
  /\ mixCmd = NoCmd
  /\ videoFilter = ""
  /\ warnings = {}
  /\ probed = NoProbe
  /\ result = ""
  /\ error = ""
  /\ jobs = 1
  /\ status = Running
  /\ generators = <<>>
  /\ bridge = NoBridge
  /\ text = NoText

Next ==
  \/ GenerateAll_deps
  \/ GenerateAll_melody
  \/ GenerateAll_render
  \/ GenerateAll_texture
  \/ GenerateAll_vocals
  \/ GenerateAll_mix
  \/ GenerateAll_video
  \/ GenerateAll_metadata
  \/ Main

Spec == Init /\ [][Next]_vars

\* ------------------------------------------------- mix_audio called alone
\* a MediaGenerator on a directory holding any of the stems, mix_audio
\* called on it directly
StemSizes == {Absent, MIN_FILE_SIZE - 1, MIN_FILE_SIZE}

InitDirect ==
  /\ pc = "mix"
  /\ \E t \in StemSizes, m \in StemSizes, v \in StemSizes, x \in {Absent, MIN_FILE_SIZE} :
       files = [EmptyDir EXCEPT !["wav_texture"] = t, !["wav_midi"] = m,
                                !["wav_vocals"] = v, !["wav_mix"] = x]
  /\ reused = TRUE
  /\ lyrics = <<>>
  /\ style = Omitted
  /\ stages = <<>>
  /\ log = <<>>
  /\ mixCmd = NoCmd
  /\ videoFilter = ""
  /\ warnings = {}
  /\ probed = NoProbe
  /\ result = ""
  /\ error = ""
  /\ jobs = 1
  /\ status = Running
  /\ generators = <<>>
  /\ bridge = NoBridge
  /\ text = NoText

NextDirect == GenerateAll_mix

SpecDirect == InitDirect /\ [][NextDirect]_vars

\* --------------------------------------------- generate_video called alone
\* a MediaGenerator on a directory with or without a mix and a video,
\* generate_video called on it directly
InitVideo ==
  /\ pc = "video"
  /\ \E x \in StemSizes, v \in StemSizes :
       files = [EmptyDir EXCEPT !["wav_mix"] = x, !["mp4_video"] = v]
  /\ reused = TRUE
  /\ lyrics = <<>>
  /\ style \in StyleInputs
  /\ stages = <<>>
  /\ log = <<>>
  /\ mixCmd = NoCmd
  /\ videoFilter = ""
  /\ warnings = {}
  /\ probed = NoProbe
  /\ result = ""
  /\ error = ""
  /\ jobs = 1
  /\ status = Running
  /\ generators = <<>>
  /\ bridge = NoBridge
  /\ text = NoText

NextVideo == GenerateAll_video

SpecVideo == InitVideo /\ [][NextVideo]_vars

\* ---------------------------------------------- validate_file called alone
\* sizes around the threshold, an empty file, a missing one
ValidateSizes ==
  {Absent, 0} \cup ((MIN_FILE_SIZE - MaxSizeDelta)..(MIN_FILE_SIZE + MaxSizeDelta))

InitValidate ==
  /\ pc = "validate"
  /\ \E p \in Paths, sz \in ValidateSizes : files = [EmptyDir EXCEPT ![p] = sz]
  /\ reused = TRUE
  /\ lyrics = <<>>
  /\ style = Omitted
  /\ stages = <<>>
  /\ log = <<>>
  /\ mixCmd = NoCmd
  /\ videoFilter = ""
  /\ warnings = {}
  /\ probed = NoProbe
  /\ result = ""
  /\ error = ""
  /\ jobs = 1
  /\ status = Running
  /\ generators = <<>>
  /\ bridge = NoBridge
  /\ text = NoText

\* validate_file(filepath) on one of the paths: it returns True or raises
Call_validate_file ==
  /\ pc = "validate"
  /\ \E p \in Paths :
       /\ log' = Append(log, Entry("validate_file", p, "n/a", validate_file(files, p)))
       /\ error' = validate_file(files, p)
       /\ pc' = (IF validate_file(files, p) = "" THEN "done" ELSE "failed")
       /\ result' = (IF validate_file(files, p) = "" THEN "returned" ELSE "raised")
  /\ UNCHANGED <<files, lyrics, style, stages, mixCmd, videoFilter, warnings,
                 probed, reused, jobs, status, generators, bridge, text>>

NextValidate == Call_validate_file

SpecValidate == InitValidate /\ [][NextValidate]_vars

\* ------------------------------------------- an invocation that never exits
\* the attempts of the stage at pc and the directory they leave
Attempts(stage) ==
  CASE stage = "deps" -> {[fs |-> r.fs, log |-> r.log] : r \in check_dependencies(files)}
    [] stage = "melody" -> {[fs |-> r.fs, log |-> r.log] : r \in generate_melody(files)}
    [] stage = "render" -> {[fs |-> r.fs, log |-> r.log] : r \in midi_to_wav(files)}
    [] stage = "texture" -> {[fs |-> r.fs, log |-> r.log] : r \in generate_texture(files)}
    [] stage = "vocals" -> {[fs |-> r.fs, log |-> r.log] : r \in generate_vocals(files, lyrics)}
    [] stage = "mix" -> {[fs |-> r.fs, log |-> r.log] : r \in mix_audio(files)}
    [] stage = "video" -> {[fs |-> r.fs, log |-> r.log] : r \in generate_video(files, style)}

\* attempts made inside the interpreter, not by a subprocess
InProcess == {"midiutil", "soundfont"}

\* subprocess.run given a timeout: TimeoutExpired ends the run
hung_pc_timeout(stage) == "failed"

\* subprocess.run(...) without timeout: the call does not return while the
\* program runs
hung_pc(stage) == "hung"

\* a subprocess of the stage at pc never exits: the attempts before it were
\* made, generate_all stays in the call
GenerateAll_hang ==
  /\ pc \in {"deps", "melody", "render", "texture", "vocals", "mix", "video"}
  /\ \E r \in Attempts(pc) : \E n \in 1..Len(r.log) :
       /\ r.log[n].cmd \notin InProcess
       /\ log' = log \o SubSeq(r.log, 1, n - 1)
                     \o <<Entry(r.log[n].cmd, r.log[n].out, "never", "")>>
       /\ files' = (IF n = Len(r.log) THEN r.fs ELSE files)
  /\ pc' = hung_pc(pc)
  /\ stages' = (IF pc = "deps" THEN stages ELSE Append(stages, pc))
  /\ UNCHANGED <<lyrics, style, mixCmd, videoFilter, warnings, probed, result,
                 error, reused, jobs, status, generators, bridge, text>>

\* one run of generate_all, the interpreter going on to the next statement
\* whenever there is one
NextRun ==
  \/ GenerateAll_deps
  \/ GenerateAll_melody
  \/ GenerateAll_render
  \/ GenerateAll_texture
  \/ GenerateAll_vocals
  \/ GenerateAll_mix
  \/ GenerateAll_video
  \/ GenerateAll_metadata
  \/ GenerateAll_hang

SpecRun == Init /\ [][NextRun]_vars /\ WF_vars(NextRun)

\* ------------------------------------------------ programs run on their own
\* no job of generate_media.py is running
PipelineIdle ==
  /\ pc = "idle"
  /\ files = EmptyDir
  /\ reused = FALSE
  /\ lyrics = <<>>
  /\ style = Omitted
  /\ stages = <<>>
  /\ log = <<>>
  /\ mixCmd = NoCmd
  /\ videoFilter = ""
  /\ warnings = {}
  /\ probed = NoProbe
  /\ result = ""
  /\ error = ""
  /\ jobs = 1
  /\ status = Running

\* ------------------------------------------- MediaGenerator.__init__ alone
\* the file names of self.paths
FileNames ==
  [midi |-> "melody.mid", wav_midi |-> "melody.wav",
   wav_texture |-> "texture.wav", wav_vocals |-> "vocals.wav",
   wav_mix |-> "mix.wav", mp4_video |-> "final.mp4",
   metadata |-> "metadata.json"]

\* the arguments job_id and output_dir: left out (None), empty, or given;
\* the values str(uuid.uuid4())[:8] may take
JobIdArgs == {Omitted, "", "1b9d6bcd", "x"}
OutputDirArgs == {Omitted, "", "out", "out/", "public/assets/x"}
Uuids == {"1b9d6bcd", "6ec0bd7f"}

\* `value or default`: None and the empty string are false
falsy(arg) == arg \in {Omitted, ""}

\* os.path.join(a, b) for a relative b
os_path_join(a, b) ==
  IF a = "" \/ SubSeq(a, Len(a), Len(a)) = "/" THEN a \o b ELSE a \o "/" \o b

\* one directory for the jobs of every id
default_output_dir_flat(job_id) == "public/assets"

\* f"public/assets/{self.job_id}"
default_output_dir(job_id) == "public/assets/" \o job_id

\* the object __init__ leaves (args: what the caller passed)
MediaGenerator(job_id_arg, output_dir_arg, uuid) ==
  LET job_id == IF falsy(job_id_arg) THEN uuid ELSE job_id_arg
      output_dir == IF falsy(output_dir_arg) THEN default_output_dir(job_id)
                    ELSE output_dir_arg
  IN [job_id |-> job_id,
      output_dir |-> output_dir,
      paths |-> [p \in Paths |-> os_path_join(output_dir, FileNames[p])],
      args |-> [job_id |-> job_id_arg, output_dir |-> output_dir_arg]]

MediaGenerator_init ==
  /\ Len(generators) < MaxGenerators
  /\ \E job_id_arg \in JobIdArgs, output_dir_arg \in OutputDirArgs, uuid \in Uuids :
       generators' = Append(generators, MediaGenerator(job_id_arg, output_dir_arg, uuid))
  /\ UNCHANGED <<pipeline, bridge, text>>

InitPaths ==
  /\ PipelineIdle
  /\ generators = <<>>
  /\ bridge = NoBridge
  /\ text = NoText

NextPaths == MediaGenerator_init

SpecPaths == InitPaths /\ [][NextPaths]_vars

\* ------------------------------------------------ provider-bridge scripts
Bridges == {"magenta_bridge", "riffusion_bridge", "coqui_bridge"}

\* the "engine" of the result each strategy returns
PrimaryEngine(b) ==
  CASE b = "magenta_bridge" -> "Magenta (melody_rnn)"
    [] b = "riffusion_bridge" -> "Riffusion"
    [] b = "coqui_bridge" -> "CoquiTTS"

FallbackEngine(b) ==
  CASE b = "magenta_bridge" -> "Fallback (MIDIUtil)"
    [] b = "riffusion_bridge" -> "Fallback (Procedural)"
    [] b = "coqui_bridge" -> "Fallback (Robotic)"

\* the output file: who wrote it last and whether to the end; NoFile when
\* there is none
File(by, whole) == [by |-> by, whole |-> whole]
NoFile == File("", FALSE)

\* the dict a strategy returns; NoResult: nothing was printed
Result(success, engine, reason) ==
  [success |-> success, engine |-> engine, reason |-> reason]
NoResult == Result(FALSE, "", "")

\* the reason handed to the fallback: str(e), or the literal "ImportError"
\* in the `except ImportError` clause of the riffusion and coqui bridges
reason_of(b, exc) ==
  IF exc = "ImportError" /\ b # "magenta_bridge" THEN "ImportError"
  ELSE "str(" \o exc \o ")"

\* the try block of generate_with_<primary>: it returns, or raises before,
\* while or (coqui: soundfile imported and read after tts_to_file) after
\* writing the output
primary(b, f) ==
  {[raised |-> "", file |-> File(PrimaryEngine(b), TRUE),
    result |-> Result(TRUE, PrimaryEngine(b), "")]}
  \cup {[raised |-> exc, file |-> f, result |-> NoResult]
        : exc \in {"ImportError", "Exception"}}
  \cup {[raised |-> "Exception", file |-> File(PrimaryEngine(b), FALSE),
         result |-> NoResult]}
  \cup (IF b = "coqui_bridge"
          THEN {[raised |-> exc, file |-> File(PrimaryEngine(b), TRUE),
                 result |-> NoResult] : exc \in {"ImportError", "Exception"}}
          ELSE {})

\* generate_fallback*: it writes the output and returns success, or an
\* exception before or while writing is turned into the failure dict
generate_fallback(b, f, reason) ==
  {[file |-> File(FallbackEngine(b), TRUE),
    result |-> Result(TRUE, FallbackEngine(b), reason)]}
  \cup {[file |-> w, result |-> Result(FALSE, "Fallback", reason)]
        : w \in {f, File(FallbackEngine(b), FALSE)}}

Attempt(strategy, raised) == [strategy |-> strategy, raised |-> raised]

\* the fallback run after the primary whatever the primary did
generate_with_fallback_always(b, f) ==
  UNION {{[file |-> q.file, result |-> q.result,
           attempts |-> <<Attempt("primary", p.raised # ""),
                          Attempt("fallback", ~q.result.success)>>]
          : q \in generate_fallback(b, p.file, reason_of(b, p.raised))}
         : p \in primary(b, f)}

\* generate_with_<primary>: try the primary, in the handlers return what
\* the fallback returns
generate_with(b, f) ==
  UNION {IF p.raised = ""
           THEN {[file |-> p.file, result |-> p.result,
                  attempts |-> <<Attempt("primary", FALSE)>>]}
           ELSE {[file |-> q.file, result |-> q.result,
                  attempts |-> <<Attempt("primary", TRUE),
                                 Attempt("fallback", ~q.result.success)>>]
                 : q \in generate_fallback(b, p.file, reason_of(b, p.raised))}
         : p \in primary(b, f)}

\* sys.exit(0 if result["success"] else 1)
exit_code(res) == IF res.success THEN 0 ELSE 1

\* main() of a bridge script, run again on the same --output: the parent
\* directory cannot be made (the exception ends the process), or the
\* result of generate_with_<primary> is printed and decides the status
Bridge_main ==
  /\ bridge.runs < MaxBridgeRuns
  /\ \/ bridge' = [bridge EXCEPT !.attempts = <<>>, !.result = NoResult,
                                  !.exit = 1, !.runs = @ + 1]
     \/ \E r \in generate_with(bridge.script, bridge.file) :
          bridge' = [script |-> bridge.script, file |-> r.file,
                     attempts |-> r.attempts, result |-> r.result,
                     exit |-> exit_code(r.result), runs |-> bridge.runs + 1]
  /\ UNCHANGED <<pipeline, generators, text>>

InitBridge ==
  /\ PipelineIdle
  /\ generators = <<>>
  /\ bridge \in {[script |-> b, file |-> NoFile, attempts |-> <<>>,
                   result |-> NoResult, exit |-> Running, runs |-> 0]
                  : b \in Bridges}
  /\ text = NoText

NextBridge == Bridge_main

SpecBridge == InitBridge /\ [][NextBridge]_vars

\* ------------------------------------------- text service (services/text.py)
GENRES == <<"Lo-Fi", "Synthwave", "Indie Pop", "RnB", "Ambient", "Afrobeat",
            "House", "Trap">>
ARTISTS == <<"Tom Misch", "FKJ", "Odesza", "Billie Eilish", "Hans Zimmer",
             "Daft Punk", "Bonobo", "Nujabes">>
LANGUAGES == <<"English", "Spanish", "Hindi", "French", "Japanese", "Korean",
               "German">>
MOODS == <<"Dreamy", "Melancholic", "Energetic", "Cinematic", "Minimal", "Dark">>

Fields == {"genres", "languages", "artists", "moods"}

haystack(field) ==
  CASE field = "genres" -> GENRES
    [] field = "languages" -> LANGUAGES
    [] field = "artists" -> ARTISTS
    [] field = "moods" -> MOODS

\* Python's None
None == "<None>"

char(str, i) == SubSeq(str, i, i)

\* str.strip(chars)
RECURSIVE str_lstrip(_, _)
str_lstrip(str, chars) ==
  IF str = "" THEN str
  ELSE IF char(str, 1) \in chars THEN str_lstrip(SubSeq(str, 2, Len(str)), chars)
  ELSE str

RECURSIVE str_rstrip(_, _)
str_rstrip(str, chars) ==
  IF str = "" THEN str
  ELSE IF char(str, Len(str)) \in chars
       THEN str_rstrip(SubSeq(str, 1, Len(str) - 1), chars)
  ELSE str

str_strip(str, chars) == str_rstrip(str_lstrip(str, chars), chars)

\* the characters str.strip() removes
Space == {" ", "\t", "\n"}

\* str.replace(old, new) for a one-character old
RECURSIVE replace(_, _, _)
replace(str, old, new) ==
  IF str = "" THEN ""
  ELSE (IF char(str, 1) = old THEN new ELSE char(str, 1))
       \o replace(SubSeq(str, 2, Len(str)), old, new)

\* str.split(sep) for a one-character sep
RECURSIVE split(_, _)
split(str, sep) ==
  LET at == {i \in 1..Len(str) : char(str, i) = sep}
  IN IF at = {} THEN <<str>>
     ELSE LET k == CHOOSE i \in at : \A j \in at : i <= j
          IN <<SubSeq(str, 1, k - 1)>> \o split(SubSeq(str, k + 1, Len(str)), sep)

\* str.lower()
UpperCase == "ABCDEFGHIJKLMNOPQRSTUVWXYZ"
LowerCase == "abcdefghijklmnopqrstuvwxyz"

lower_char(c) ==
  IF \E i \in 1..Len(UpperCase) : char(UpperCase, i) = c
    THEN char(LowerCase, CHOOSE i \in 1..Len(UpperCase) : char(UpperCase, i) = c)
    ELSE c

RECURSIVE lower(_)
lower(str) ==
  IF str = "" THEN "" ELSE lower_char(char(str, 1)) \o lower(SubSeq(str, 2, Len(str)))

\* `sub in str`
str_in(sub, str) ==
  \E i \in 1..(Len(str) - Len(sub) + 1) : SubSeq(str, i, i + Len(sub) - 1) = sub

\* seq[:5]
first5(seq) == SubSeq(seq, 1, IF Len(seq) < 5 THEN Len(seq) ELSE 5)

\* _parse_suggestions (of the characters stripped from a part, the bullet
\* is in none of the replies drawn here)
parse_suggestions(raw) ==
  LET cleaned == replace(replace(raw, "\n", ","), ";", ",")
      pieces == split(cleaned, ",")
      parts == [i \in 1..Len(pieces) |-> str_strip(pieces[i], {" ", "-", "\t"})]
      NonEmpty(part) == part # ""
  IN SelectSeq(parts, NonEmpty)

\* what awaiting a provider gives: an exception, None, or a string
Providers == <<"cohere", "huggingface", "ollama">>
Replies == {"Chill, Lo-Fi\nHouse", ";, -", "a,b;c, d,e,f"}
Outcome(raised, value) == [raised |-> raised, value |-> value]
ProviderOutcomes ==
  {Outcome(TRUE, None)} \cup {Outcome(FALSE, v) : v \in {None, ""} \cup Replies}

\* `if result:`
truthy(value) == value # None /\ value # ""

succeeded(o) == ~o.raised /\ truthy(o.value)

AllFailed == "RuntimeError: All text providers failed"

\* every provider awaited, the last non-empty result returned
first_success_last(env, fallback) ==
  LET ok == {i \in 1..Len(env) : succeeded(env[i])}
  IN IF ok # {}
       THEN [raised |-> "", called |-> Len(env),
             value |-> env[CHOOSE i \in ok : \A j \in ok : j <= i].value]
     ELSE IF fallback # None
       THEN [raised |-> "", value |-> fallback, called |-> Len(env)]
     ELSE [raised |-> AllFailed, value |-> None, called |-> Len(env)]

\* _first_success(callables, fallback) where awaiting callable i gives
\* env[i]: the loop returns at the first non-empty result; called: how many
\* callables were awaited
first_success(env, fallback) ==
  LET ok == {i \in 1..Len(env) : succeeded(env[i])}
  IN IF ok # {}
       THEN LET k == CHOOSE i \in ok : \A j \in ok : i <= j
            IN [raised |-> "", value |-> env[k].value, called |-> k]
     ELSE IF fallback # None
       THEN [raised |-> "", value |-> fallback, called |-> Len(env)]
     ELSE [raised |-> AllFailed, value |-> None, called |-> Len(env)]

NotCalled == [raised |-> "", value |-> None, called |-> 0]

\* the substring matching at the end of suggest
local_suggestions(field, query) ==
  LET Matches(item) == str_in(lower(query), lower(item))
      matches == IF query # "" THEN SelectSeq(haystack(field), Matches)
                 ELSE haystack(field)
  IN first5(IF matches # <<>> THEN matches ELSE haystack(field))

\* suggest(req): what it raises, the suggestions it returns, and what the
\* _first_success call in it did
suggest(field, input, env) ==
  LET query == str_strip(input, Space)
      first == first_success(env, None)
      parsed == parse_suggestions(first.value)
  IN IF query = ""
       THEN [raised |-> "", suggestions |-> local_suggestions(field, query),
             first |-> NotCalled]
     ELSE IF first.raised # ""
       THEN [raised |-> first.raised, suggestions |-> <<>>, first |-> first]
     ELSE IF truthy(first.value) /\ parsed # <<>>
       THEN [raised |-> "", suggestions |-> first5(parsed), first |-> first]
     ELSE [raised |-> "", suggestions |-> local_suggestions(field, query),
           first |-> first]

\* _fallback_text(prompt)
fallback_text(prompt) ==
  "This is an open-source MuseWave response inspired by \"" \o prompt \o "\"."

\* generate_prompt(req): the lyrics of the response
generate_prompt(prompt, env) == first_success(env, fallback_text(prompt))

\* the requests: req.input of a SuggestRequest, req.prompt of a
\* PromptRequest
Inputs == {"", "  ", "lo", " HOUSE ", "zz", "an"}
Prompts == {"", "rain"}

\* a request waiting to be served, and what each provider will do when
\* awaited
Request(call, field, input, env) ==
  [call |-> call, field |-> field, input |-> input, env |-> env,
   done |-> FALSE, fallback |-> None, first |-> NotCalled, raised |-> "",
   suggestions |-> <<>>, lyrics |-> ""]

Call_suggest ==
  /\ text.call = "suggest"
  /\ ~text.done
  /\ LET r == suggest(text.field, text.input, text.env)
     IN text' = [text EXCEPT !.done = TRUE, !.first = r.first,
                             !.raised = r.raised, !.suggestions = r.suggestions]
  /\ UNCHANGED <<pipeline, generators, bridge>>

Call_generate_prompt ==
  /\ text.call = "generate_prompt"
  /\ ~text.done
  /\ LET r == generate_prompt(text.input, text.env)
     IN text' = [text EXCEPT !.done = TRUE, !.first = r,
                             !.fallback = fallback_text(text.input),
                             !.raised = r.raised, !.lyrics = r.value]
  /\ UNCHANGED <<pipeline, generators, bridge>>

InitText ==
  /\ PipelineIdle
  /\ generators = <<>>
  /\ bridge = NoBridge
  /\ \E env \in [1..Len(Providers) -> ProviderOutcomes] :
       \/ \E field \in Fields, input \in Inputs :
            text = Request("suggest", field, input, env)
       \/ \E prompt \in Prompts :
            text = Request("generate_prompt", "", prompt, env)

NextText == Call_suggest \/ Call_generate_prompt

SpecText == InitText /\ [][NextText]_vars

TypeOK ==
  /\ pc \in {"deps", "melody", "render", "texture", "vocals", "mix", "video",
             "metadata", "done", "failed"}
  /\ files \in [Paths -> FileSizes]
  /\ lyrics \in LyricsInputs
  /\ style \in StyleInputs
  /\ result \in {"", "success", "raised"}
  /\ jobs \in 1..MaxJobs
  /\ status \in {Running, 0, 1}

\* ------------------------------------------------------------ properties
Last(s) == s[Len(s)]

Entries == {log[i] : i \in 1..Len(log)}

Ran(cmd) == \E e \in Entries : e.cmd = cmd

Failed(cmd) == \E e \in Entries : e.cmd = cmd /\ e.err # ""

\* a step of the current run (not the construction of the next job)
SameJob == jobs' = jobs

RequiredStages == {"melody", "render", "texture", "mix", "video"}

\* the stage at pc ran and its last attempt raised, or it raised before
\* making any attempt
StageFailed ==
  /\ pc \in RequiredStages
  /\ SameJob
  /\ stages' # stages
  /\ \/ log' = log
     \/ log' # log /\ Last(log').err # ""

\* C1: when a required stage (melody, render, texture, mix, video) fails,
\* generate_all aborts at once: the run ends in "failed" with the exception
\* handed to the caller and no descriptor written, and nothing of the run
\* (no stage, no attempt, no file) happens after that.
C1_AbortOnRequiredFailure ==
  [][ /\ StageFailed =>
           /\ pc' = "failed"
           /\ result' = "raised"
           /\ error' # ""
           /\ files'["metadata"] = files["metadata"]
      /\ (pc = "failed" /\ SameJob) =>
           UNCHANGED <<files, stages, log, result, error>> ]_vars

C1_Witness ==
  /\ pc = "failed"
  /\ result = "raised"
  /\ stages # <<>>
  /\ Last(stages) = "render"
  /\ Failed("fluidsynth")

\* C2: the stages entered by a run are an initial part of melody, render,
\* texture, vocals, mix, video (each at most once, none before an earlier
\* one), and every attempt belongs to a stage already entered, the attempts
\* of an earlier stage all coming before those of a later one.
StageOrder == <<"melody", "render", "texture", "vocals", "mix", "video">>

IsPrefix(s, t) == Len(s) <= Len(t) /\ \A i \in 1..Len(s) : s[i] = t[i]

StageOf(e) ==
  CASE e.out = "" -> 0
    [] e.out = "midi" -> 1
    [] e.out = "wav_midi" -> 2
    [] e.out = "wav_texture" -> 3
    [] e.out = "wav_vocals" -> 4
    [] e.out = "wav_mix" -> 5
    [] e.out = "mp4_video" -> 6

C2_StagesInOrder ==
  /\ IsPrefix(stages, StageOrder)
  /\ \A i \in 1..Len(log) : StageOf(log[i]) <= Len(stages)
  /\ \A i \in 1..Len(log) : \A j \in i..Len(log) : StageOf(log[i]) <= StageOf(log[j])

C2_Witness == pc = "done" /\ stages = StageOrder /\ Ran("tts")

\* C3: in the melody and texture stages the fallback runs exactly when the
\* primary attempt raised; a primary attempt that did not raise exited zero
\* and left an output that passes the existence/size gate.
C3_FallbackIffPrimaryFailed ==
  /\ Ran("midiutil") <=> Failed("magenta")
  /\ Ran("ffmpeg-sine") <=> Failed("riffusion")
  /\ \A e \in Entries :
       (e.cmd \in {"magenta", "riffusion"} /\ e.err = "") =>
         /\ e.exit = "zero"
         /\ files[e.out] >= MIN_FILE_SIZE
  /\ \A i \in 1..Len(log) : \A j \in 1..Len(log) :
       (log[i].cmd \in {"magenta", "midiutil", "riffusion", "ffmpeg-sine"}
        /\ log[i].cmd = log[j].cmd) => i = j

C3_Witness ==
  /\ pc = "vocals"
  /\ Ran("magenta") /\ ~Failed("magenta") /\ ~Ran("midiutil")
  /\ Failed("riffusion") /\ Ran("ffmpeg-sine")

\* C4: the melody and the texture stage never fail once their fallback is
\* reached, except for a failure of the environment (the MIDI library not
\* importable, ffmpeg exiting non-zero or leaving no full-size file).
EnvironmentFailure(e) ==
  \/ e.cmd = "midiutil" /\ e.err = "ImportError"
  \/ e.cmd = "ffmpeg-sine"

C4_FallbackNeverFails ==
  (pc = "failed" /\ stages # <<>> /\ Last(stages) \in {"melody", "texture"})
    => EnvironmentFailure(Last(log))

\* C5: with empty or whitespace-only lyrics the vocals stage makes no
\* attempt, touches no file, raises nothing, and hands over to the mix.
Blank(lyr) == \A i \in 1..Len(lyr) : lyr[i] = " "

C5_NoLyricsSkipsVocals ==
  [][ (pc = "vocals" /\ Blank(lyrics) /\ SameJob) =>
        /\ pc' = "mix"
        /\ log' = log
        /\ files' = files
        /\ result' = ""
        /\ error' = "" ]_vars

C5_Witness ==
  /\ pc = "mix"
  /\ lyrics # <<>>
  /\ Blank(lyrics)
  /\ Last(stages) = "vocals"
  /\ ~Ran("tts")

\* C6: with lyrics given, a failed vocals attempt leaves the mix with the
\* two stems texture and melody audio.
C6_FailedVocalsTwoStems ==
  (~Blank(lyrics) /\ Failed("tts") /\ mixCmd # NoCmd)
    => (mixCmd.inputs = <<"wav_texture", "wav_midi">> /\ mixCmd.amix = 2)

\* C7: the mix command has one input per stem file present when mix_audio
\* is called, in the order texture, melody audio, vocals, and declares
\* amix inputs equal to their number.
Stems == {"wav_texture", "wav_midi", "wav_vocals"}

StemRank(p) ==
  CASE p = "wav_texture" -> 1
    [] p = "wav_midi" -> 2
    [] p = "wav_vocals" -> 3

Present(fs) == {p \in Stems : fs[p] >= 0}

C8_NoStemsFails ==
  [][ (pc = "mix" /\ SameJob /\ Present(files) = {}) =>
        /\ pc' = "failed"
        /\ error' = NoStems
        /\ log' = log
        /\ mixCmd' = NoCmd
        /\ files' = files ]_vars

C8_Witness ==
  /\ pc = "failed"
  /\ error = NoStems
  /\ stages = <<"mix">>
  /\ log = <<>>

\* C9: a run with empty lyrics that completes returns success with the
\* vocals skipped, the mix built from 2 stems and, no style being given,
\* the spectrum filter.
C9_ScenarioA ==
  (pc = "done" /\ Blank(lyrics)) =>
    /\ result = "success"
    /\ ~Ran("tts")
    /\ mixCmd.amix = 2
    /\ Len(mixCmd.inputs) = 2
    /\ (style = Omitted => videoFilter = "showspectrum")

\* C10: every stem the mixer consumes passed the existence/size gate in
\* this run; a file a failed attempt left behind is not among them.
PassedGate(p) == \E e \in Entries : e.out = p /\ e.err = ""

C10_OnlyValidatedStems ==
  \A i \in 1..Len(mixCmd.inputs) : PassedGate(mixCmd.inputs[i])

\* C11: generate_all returns its success result only after every stage of
\* this run was entered, every required artifact passed the gate in this
\* run, mix and video are on disk at full size, the video probe found a
\* video stream and the descriptor was written; a run that ended otherwise
\* ended with the exception raised to the caller.
RequiredArtifacts == {"midi", "wav_midi", "wav_texture", "wav_mix", "mp4_video"}

C11_NoPartialSuccess ==
  /\ result = "success" =>
       /\ pc = "done"
       /\ stages = StageOrder
       /\ \A p \in RequiredArtifacts : PassedGate(p)
       /\ files["wav_mix"] >= MIN_FILE_SIZE
       /\ files["mp4_video"] >= MIN_FILE_SIZE
       /\ "video" \in probed.types
       /\ files["metadata"] = DescriptorSize
       /\ error = ""
  /\ pc = "done" => result = "success"
  /\ pc = "failed" => (result = "raised" /\ error # "")
  /\ pc \notin {"done", "failed"} => result = ""

C11_Witness == pc = "done" /\ result = "success" /\ ~Ran("tts")

\* C12: validate_file raises for a missing file and for every size up to
\* 9999 bytes, and returns True for every size from 10000 bytes on.
C12_ThresholdBoundary ==
  /\ MIN_FILE_SIZE = 10000
  /\ \A e \in Entries : e.cmd = "validate_file" =>
       /\ files[e.out] = Absent => (e.err = NotCreated /\ pc = "failed")
       /\ (files[e.out] # Absent /\ files[e.out] <= 9999) =>
            (e.err = TooSmall /\ pc = "failed")
       /\ files[e.out] >= 10000 => (e.err = "" /\ pc = "done")

C12_Witness ==
  /\ pc = "done"
  /\ log # <<>>
  /\ files[Last(log).out] = 10000
  /\ result = "returned"

\* C13: a probe of the validated mix that reports another sample rate or
\* channel count leaves a warning for each and nothing else: the mix stage
\* returns, mix.wav is still the validated file, the video stage is next.
Mismatch(pr) ==
  pr.types # {} /\ (pr.sample_rate # 44100 \/ pr.channels # 2)

C13_MismatchOnlyWarns ==
  [][ (pc = "mix" /\ SameJob /\ stages' # stages /\ Mismatch(probed')) =>
        /\ pc' = "video"
        /\ error' = ""
        /\ result' = ""
        /\ files'["wav_mix"] >= MIN_FILE_SIZE
        /\ ("sample_rate" \in warnings') <=> (probed'.sample_rate # 44100)
        /\ ("channels" \in warnings') <=> (probed'.channels # 2) ]_vars

C13_Witness ==
  /\ pc = "video"
  /\ probed.sample_rate = 22050
  /\ probed.channels = 2
  /\ warnings = {"sample_rate"}

\* C14 (as claimed): once the mix passed the gate, the mix stage does not
\* fail, whatever the probe does.
MixPassedGate == \E e \in Entries : e.cmd = "ffmpeg-amix" /\ e.err = ""

FailedAtMix == pc = "failed" /\ stages # <<>> /\ Last(stages) = "mix"

C14_ProbeNeverFails == MixPassedGate => ~FailedAtMix

\* C14 (amended): once the mix passed the gate, the mix stage fails exactly
\* when the prober exits non-zero or reports no streams (the pipeline then
\* aborts); values that differ from the expected ones never fail it.
C14_OnlyProbeErrorsFail ==
  /\ (MixPassedGate /\ FailedAtMix) =>
       /\ error \in {ProbeFailed, NoAudioStreams}
       /\ Last(log).cmd = "ffprobe"
       /\ probed = NoProbe
       /\ warnings = {}
  /\ \A e \in Entries :
       (e.cmd = "ffprobe" /\ e.out = "wav_mix" /\ e.err # "") => FailedAtMix
  /\ (MixPassedGate /\ probed.types # {} /\ stages # <<>> /\ Last(stages) = "mix")
       => pc = "video"

C14_Witness ==
  /\ MixPassedGate
  /\ FailedAtMix
  /\ error = NoAudioStreams

\* C15: when ffprobe reports the streams of the video file,
\* verify_video_format raises exactly when none of them is a video stream;
\* a video stream without an audio stream is accepted.
C15_VideoStreamRequired ==
  [][ (pc = "video" /\ SameJob /\ log' # log
       /\ Last(log').cmd = "ffprobe" /\ Last(log').exit = "zero") =>
        /\ ("video" \in probed'.types) => (pc' = "metadata" /\ error' = "")
        /\ ("video" \notin probed'.types) =>
             (pc' = "failed" /\ error' = NoVideoStream) ]_vars

C15_Witness ==
  /\ pc = "metadata"
  /\ probed.types = {"video"}
  /\ Last(log).cmd = "ffprobe"

\* C16: with the soundfont missing the render stage raises without running
\* fluidsynth, the run ends there, and texture, vocals, mix and video are
\* never entered.
Rendered == \E e \in Entries : e.cmd = "fluidsynth" /\ e.out = "wav_midi"

C16_MissingSoundfontAborts ==
  Ran("soundfont") =>
    /\ pc = "failed"
    /\ error = SoundfontMissing
    /\ result = "raised"
    /\ stages = <<"melody", "render">>
    /\ ~Rendered
    /\ \A e \in Entries : StageOf(e) <= 2
    /\ mixCmd = NoCmd
    /\ videoFilter = ""

C16_Witness ==
  /\ Ran("soundfont")
  /\ pc = "failed"
  /\ Last(stages) = "render"

\* C17: generate_video without a mix file raises the missing-mix error, runs
\* no encoder and leaves the directory as it was.
C17_VideoNeedsMix ==
  [][ (pc = "video" /\ SameJob /\ files["wav_mix"] = Absent) =>
        /\ pc' = "failed"
        /\ error' = MixNotFound
        /\ log' = log
        /\ files' = files
        /\ videoFilter' = "" ]_vars

C17_Witness ==
  /\ pc = "failed"
  /\ error = MixNotFound
  /\ stages = <<"video">>
  /\ log = <<>>

\* C18: for the styles spectrum, waveform and volumeter the filter handed to
\* the encoder is showspectrum, showwaves and avectorscope respectively, and
\* no two of the styles share a filter.
C18_StyleSelectsFilter ==
  (videoFilter # "" /\ style \in {"spectrum", "waveform", "volumeter"}) =>
    /\ (videoFilter = "showspectrum") <=> (style = "spectrum")
    /\ (videoFilter = "showwaves") <=> (style = "waveform")
    /\ (videoFilter = "avectorscope") <=> (style = "volumeter")

C18_Witness ==
  /\ pc = "done"
  /\ style = "volumeter"
  /\ videoFilter = "avectorscope"

\* C19: every command of a run is executed once, and an execution that
\* exits non-zero raises: it never counts as a success and is not repeated.
ViaRunCommand ==
  {"magenta", "fluidsynth", "riffusion", "ffmpeg-sine", "tts", "ffmpeg-amix",
   "ffmpeg-video"}

C19_NonZeroExitFails ==
  /\ \A e \in Entries :
       (e.cmd \in ViaRunCommand /\ e.out # "" /\ e.exit = "nonzero") => e.err = FailedTo
  /\ \A i \in 1..Len(log) : \A j \in 1..Len(log) :
       (log[i].cmd \in ViaRunCommand /\ log[i].out # ""
        /\ log[i].cmd = log[j].cmd /\ log[i].out = log[j].out) => i = j
  /\ \A e \in Entries :
       (e.cmd \in {"fluidsynth", "ffmpeg-sine", "ffmpeg-amix", "ffmpeg-video"}
        /\ e.exit = "nonzero") => (pc = "failed" /\ Last(log) = e)

C19_Witness ==
  /\ pc = "failed"
  /\ Last(log).cmd = "ffmpeg-video"
  /\ Last(log).exit = "nonzero"

\* C20: a job starts on a directory no other job has written to: when
\* generate_all begins, the directory holds no artifact.
C20_DirectoryNeverShared == (pc = "deps") => (files = EmptyDir /\ ~reused)

\* C21: within a run the descriptor file is touched only by the save step,
\* which is reached only after melody, render, texture, mix and video were
\* entered in this run and each left an artifact that passed the gate; a
\* run that ends in a required stage leaves the descriptor as it found it.
C21_DescriptorOnlyAfterStages ==
  [][ /\ (SameJob /\ files'["metadata"] # files["metadata"]) =>
           /\ pc = "metadata"
           /\ stages = StageOrder
           /\ \A p \in RequiredArtifacts : PassedGate(p)
           /\ "video" \in probed.types
      /\ (SameJob /\ pc \in RequiredStages /\ pc' = "failed") =>
           files'["metadata"] = files["metadata"] ]_vars

C21_Witness ==
  /\ pc = "done"
  /\ ~reused
  /\ files["metadata"] = DescriptorSize
  /\ Ran("midiutil") = FALSE
  /\ Ran("ffmpeg-sine")

\* C26: the fallback MIDI is accepted only when the written file passes the
\* existence and 10000-byte gate; when the gate rejects it, or the MIDI
\* library cannot be imported, the melody stage raises that exception and
\* the run ends there, before render or any later stage makes an attempt.
C26_FallbackMidiGated ==
  \A e \in Entries : e.cmd = "midiutil" =>
    /\ e.err = "" => (exists(files, "midi") /\ files["midi"] >= 10000)
    /\ e.err \in {"", "ImportError", NotCreated, TooSmall}
    /\ (e.err = TooSmall) => (exists(files, "midi") /\ files["midi"] < 10000)
    /\ e.err # "" =>
         /\ pc = "failed"
         /\ result = "raised"
         /\ error = e.err
         /\ stages = <<"melody">>
         /\ Last(log) = e
         /\ \A x \in Entries : StageOf(x) <= 1

C26_Witness ==
  /\ pc = "failed"
  /\ Last(log).cmd = "midiutil"
  /\ error = TooSmall
  /\ files["midi"] = FallbackMidiSize

\* C27: generate_all probes ffmpeg, ffprobe, fluidsynth and python3, in
\* that order and all four, before it enters any stage; when a probe does
\* not find its tool the run ends right after the four probes with the
\* missing-dependencies error, whose message names every tool not found,
\* no stage entered, no generator run and no file touched.
Contains(s, t) ==
  \E i \in 1..(Len(s) - Len(t) + 1) : SubSeq(s, i, i + Len(t) - 1) = t

NotFound(i) == log[i].out = "" /\ log[i].exit = "notfound"

C27_ProbesBeforeStages ==
  /\ pc = "deps" => (log = <<>> /\ stages = <<>>)
  /\ pc # "deps" =>
       /\ Len(log) >= 4
       /\ log[1].cmd = "ffmpeg" /\ log[2].cmd = "ffprobe"
       /\ log[3].cmd = "fluidsynth" /\ log[4].cmd = "python3"
       /\ \A i \in 1..4 : log[i].out = ""
       /\ \A i \in 5..Len(log) : log[i].out # ""
  /\ \A i \in 1..Len(log) : NotFound(i) =>
       /\ pc = "failed"
       /\ result = "raised"
       /\ stages = <<>>
       /\ Len(log) = 4
       /\ Contains(error, "Missing dependencies")
       /\ Contains(error, log[i].cmd)
       /\ ~reused => files = EmptyDir

C27_Witness ==
  /\ pc = "failed"
  /\ stages = <<>>
  /\ Len(log) = 4
  /\ ~NotFound(1) /\ NotFound(2) /\ ~NotFound(3) /\ NotFound(4)
  /\ error = "RuntimeError: Missing dependencies: ffprobe, python3"

\* C25: writing the descriptor is a pure side effect: once melody, render,
\* texture, mix and video have succeeded in a run, generate_all returns
\* success whether or not the descriptor could be written.
VideoSucceeded ==
  \E e \in Entries : e.cmd = "ffprobe" /\ e.out = "mp4_video" /\ e.err = ""

C25_DescriptorSideEffect ==
  (stages = StageOrder /\ VideoSucceeded /\ pc \in {"done", "failed"})
    => (pc = "done" /\ result = "success")

\* C23: the process exits with status 0 exactly when generate_all entered
\* every stage, every required artifact passed the gate and it returned its
\* success result; a run that ended with an exception exits with a
\* non-zero status, and the process does not exit while a run is going on.
C23_ExitZeroIffSuccess ==
  /\ status = 0 <=>
       /\ pc = "done"
       /\ result = "success"
       /\ stages = StageOrder
       /\ \A p \in RequiredArtifacts : PassedGate(p)
  /\ (pc = "failed" \/ result = "raised") => (status # Running /\ status # 0)
  /\ pc \notin {"done", "failed"} => status = Running

C23_Witness ==
  /\ pc = "failed"
  /\ status = 1
  /\ error = FailedTo
  /\ Last(stages) = "mix"

\* C24: a run in which every subprocess exits comes to its end (returned
\* or raised) after at most 14 attempts, no command being run twice for the
\* same output; a run in which a subprocess never exits stays in that call
\* for ever: it neither returns nor raises, and nothing is attempted after.
C24_TerminatesUnlessHung ==
  /\ <>(pc \in {"done", "failed", "hung"})
  /\ [](Len(log) <= 14)
  /\ [](\A i \in 1..Len(log) : \A j \in 1..Len(log) :
          (log[i].cmd = log[j].cmd /\ log[i].out = log[j].out) => i = j)
  /\ [](\A e \in Entries : e.exit = "never" =>
          (pc = "hung" /\ Last(log) = e /\ result = "" /\ status = Running))
  /\ [](pc = "hung" => [](pc = "hung" /\ result = ""))

C24_Witness ==
  /\ pc = "hung"
  /\ Len(log) = 8
  /\ log[7].cmd = "riffusion" /\ log[7].err # ""
  /\ Last(log).cmd = "ffmpeg-sine"
  /\ Last(log).exit = "never"

\* C22 (as claimed): the artifact file names are the same for every job and
\* the job id alone determines where they are: two jobs with the same job
\* id have the same artifact paths.
Slashes(s) == {i \in 1..Len(s) : SubSeq(s, i, i) = "/"}

LastSlash(s) == IF Slashes(s) = {} THEN 0
                ELSE CHOOSE i \in Slashes(s) : \A j \in Slashes(s) : j <= i

Basename(s) == SubSeq(s, LastSlash(s) + 1, Len(s))

Dirname(s) == SubSeq(s, 1, LastSlash(s) - 1)

Objects == {generators[i] : i \in 1..Len(generators)}

SameNames ==
  \A g \in Objects : \A p \in Paths : Basename(g.paths[p]) = FileNames[p]

C22_PathsFromJobIdAlone ==
  /\ SameNames
  /\ \A g \in Objects : \A h \in Objects :
       g.job_id = h.job_id => g.paths = h.paths

\* C22 (amended): the artifact file names are the same for every job and
\* the output directory determines where they are; the output directory is
\* public/assets/<job id> only when the caller passes none, so two jobs
\* with the same job id have the same paths when neither passes an output
\* directory, and any two jobs differ at most in the parent directory.
C22_PathsFromOutputDir ==
  /\ SameNames
  /\ \A g \in Objects : \A p \in Paths :
       \/ Dirname(g.paths[p]) = g.output_dir
       \/ Dirname(g.paths[p]) \o "/" = g.output_dir
  /\ \A g \in Objects :
       /\ falsy(g.args.output_dir) => g.output_dir = "public/assets/" \o g.job_id
       /\ ~falsy(g.args.output_dir) => g.output_dir = g.args.output_dir
       /\ g.job_id # "" /\ g.job_id # Omitted
  /\ \A g \in Objects : \A h \in Objects :
       /\ g.output_dir = h.output_dir => g.paths = h.paths
       /\ (g.job_id = h.job_id /\ falsy(g.args.output_dir)
            /\ falsy(h.args.output_dir)) => g.paths = h.paths
       /\ (g.job_id # h.job_id /\ falsy(g.args.output_dir)
            /\ falsy(h.args.output_dir)) =>
             \A p \in Paths : g.paths[p] # h.paths[p]

C22_Witness ==
  /\ Len(generators) = 2
  /\ generators[1].args = [job_id |-> "x", output_dir |-> Omitted]
  /\ generators[2].args = [job_id |-> "x", output_dir |-> ""]
  /\ generators[1].paths = generators[2].paths
  /\ generators[2].paths["metadata"] = "public/assets/x/metadata.json"

\* C28: a run of a bridge script attempts the fallback exactly when the
\* primary raised; it exits 0 exactly when it printed a result with
\* success true; a printed result with success false means primary and
\* fallback both failed (exit 1); and the engine of a successful result is
\* that of the strategy that returned, which wrote the output file whole.
Reported == bridge.result # NoResult

C28_BridgeFallback ==
  bridge.runs > 0 =>
    /\ Len(bridge.attempts) <= 2
    /\ Reported => (bridge.attempts # <<>>
                    /\ bridge.attempts[1].strategy = "primary")
    /\ (\E i \in 1..Len(bridge.attempts) : bridge.attempts[i].strategy = "fallback")
         <=> (bridge.attempts # <<>> /\ bridge.attempts[1].raised)
    /\ bridge.exit = 0 <=> (Reported /\ bridge.result.success)
    /\ bridge.exit \in {0, 1}
    /\ (Reported /\ ~bridge.result.success) =>
         /\ bridge.exit = 1
         /\ Len(bridge.attempts) = 2
         /\ \A i \in 1..2 : bridge.attempts[i].raised
    /\ bridge.result.success =>
         /\ ~bridge.attempts[Len(bridge.attempts)].raised
         /\ bridge.result.engine =
              (IF Len(bridge.attempts) = 1 THEN PrimaryEngine(bridge.script)
               ELSE FallbackEngine(bridge.script))
         /\ bridge.file = File(bridge.result.engine, TRUE)

C28_Witness ==
  /\ bridge.script = "coqui_bridge"
  /\ bridge.runs > 1
  /\ Len(bridge.attempts) = 2
  /\ bridge.result = Result(TRUE, "Fallback (Robotic)", "ImportError")
  /\ bridge.exit = 0

\* C29: suggest with a non-empty query, every provider raising or giving
\* nothing, does not fail: it returns the items of the field's list that
\* contain the query whatever the case (the whole list when none does), at
\* most 5 of them.
Query == str_strip(text.input, Space)

EveryProviderFailed == \A i \in 1..Len(text.env) : ~succeeded(text.env[i])

C29_SuggestFallsBack ==
  (text.call = "suggest" /\ text.done /\ Query # "" /\ EveryProviderFailed) =>
    /\ text.raised = ""
    /\ text.suggestions = local_suggestions(text.field, Query)
    /\ Len(text.suggestions) <= 5

\* C30: _first_success awaits the providers in the given order and stops
\* at the first that gives a non-empty result, which it returns; providers
\* that raise or give None or "" are passed over; when none succeeds it
\* returns the fallback if there is one and raises only when it is None.
FirstSuccessCalled == text.done /\ text.first # NotCalled

C30_FirstSuccessInOrder ==
  FirstSuccessCalled =>
    LET k == text.first.called
    IN /\ k \in 1..Len(Providers)
       /\ \A i \in 1..(k - 1) : ~succeeded(text.env[i])
       /\ succeeded(text.env[k]) =>
            (text.first.raised = "" /\ text.first.value = text.env[k].value)
       /\ ~succeeded(text.env[k]) =>
            /\ k = Len(Providers)
            /\ text.fallback # None =>
                 (text.first.raised = "" /\ text.first.value = text.fallback)
            /\ text.fallback = None =>
                 (text.first.raised = AllFailed /\ text.raised = AllFailed)
       /\ text.call = "generate_prompt" =>
            (text.raised = "" /\ text.lyrics = text.first.value)

C30_Witness ==
  /\ text.call = "generate_prompt"
  /\ text.done
  /\ text.env[1].raised
  /\ text.env[2] = Outcome(FALSE, "")
  /\ succeeded(text.env[3])
  /\ text.first.called = 3
  /\ text.lyrics = text.env[3].value

====
